---- MODULE Spec2Model ----
(***************************************************************************)
(* IPv6 source-address pool manager (src/src/libraries/ipv6pool.ts) and    *)
(* the address-aware request dispatcher (src/src/libraries/ipv6proxy.ts).  *)
(*                                                                         *)
(* The program runs on one JavaScript event loop: an async function runs   *)
(* without interruption up to its next await of an operating-system        *)
(* command or of a network request, and a continuation whose awaited       *)
(* promise is already settled runs in the same turn.  Each action below is *)
(* one such turn.  An interface command takes effect in the turn in which  *)
(* its await resumes.                                                      *)
(***************************************************************************)
EXTENDS Integers, Sequences, FiniteSets, TLC

\* ------------------------------------------------------------------ bounds
NAddr == 2        \* distinct well-formed addresses randomIPv6 can draw
MaxDesired == 2   \* largest IPV6_POOL_SIZE tried
MaxBatch == 2     \* largest IPV6_BATCH_SIZE tried
MaxStarts == 2    \* calls of initIPv6Pool
MaxStops == 2     \* calls of stopIPv6Pool
MaxCallStack == 4 \* frames getNextIPFromPool may nest before RangeError

VARIABLES
    config,          \* ipv6pool.ts:19-27, read-only after load
    ipPool,          \* ipv6pool.ts:30
    poolMutex,       \* ipv6pool.ts:31
    currentIPIndex,  \* ipv6pool.ts:32
    initialized,     \* ipv6pool.ts:33
    poolTimer,       \* ipv6pool.ts:34, 0 is null
    timers,          \* intervals the runtime still fires (setInterval minus clearInterval)
    iface,           \* addresses assigned on the host interface
    pass,            \* locals of the manageIPPool invocation that holds poolMutex
    init,            \* the initIPv6Pool invocations
    stop,            \* the stopIPv6Pool invocations
    last,            \* history: the operation the latest turn completed, and its outcome
    rr,              \* history: what getNextIPFromPool returned since the pool last changed
    req,             \* the requestWithIPv6 invocation
    hostAddsOk       \* the host: its `ip -6 addr add` no longer fails for a well-formed address

vars == <<config, ipPool, poolMutex, currentIPIndex, initialized, poolTimer,
          timers, iface, pass, init, stop, last, rr, req, hostAddsOk>>

aux == <<rr, req, hostAddsOk>>

\* ----------------------------------------------------------------- values
Min(a, b) == IF a < b THEN a ELSE b

Range(s) == {s[j] : j \in 1..Len(s)}

\* What randomIPv6 yields when prefix:subnet do not make four hextets.
Bad == 0

Addr == 1..NAddr

Starts == 1..MaxStarts

Stops == 1..MaxStops

\* Array.prototype.slice(0, n) and slice(n) for n >= 0
SliceTo(s, n) == SubSeq(s, 1, Min(n, Len(s)))

SliceFrom(s, n) == SubSeq(s, Min(n, Len(s)) + 1, Len(s))

\* net.isIPv6
IsIPv6(ip) == ip \in Addr

\* randomIPv6: the addresses one call may return
RandomIPv6 == IF config.wellFormed THEN Addr ELSE {Bad}

\* addIPv6ToInterface: the values it may return for ip.  The host command
\* rejects a malformed address; "File exists" counts as success.
AddOutcomes(ip) ==
    IF ~IsIPv6(ip) THEN {FALSE}
    ELSE IF hostAddsOk THEN {TRUE}
    ELSE BOOLEAN

IfaceAfterAdd(ifc, ip, ok) == IF ok THEN ifc \cup {ip} ELSE ifc

\* removeIPv6FromInterface: the host command fails for an address that is
\* not assigned, and may fail for one that is.
RemoveOutcomes(ifc, ip) == IF ip \in ifc THEN BOOLEAN ELSE {FALSE}

IfaceAfterRemove(ifc, ip, ok) == IF ok THEN ifc \ {ip} ELSE ifc

\* ------------------------------------------------------ manageIPPool locals
NeedToAddNever(currentSize) == FALSE

NeedToAdd(currentSize) == currentSize < config.desiredPoolSize

BatchTargetNoClamp(currentSize) == config.poolAddBatchSize

BatchTarget(currentSize) ==
    Min(config.poolAddBatchSize, config.desiredPoolSize - currentSize)

ShouldReplaceNonEmpty(currentSize) == currentSize >= 1

ShouldReplace(currentSize) == currentSize >= config.desiredPoolSize

NumToRemoveAll(currentSize) == currentSize

NumToRemove(currentSize) == Min(config.poolAddBatchSize, currentSize)

ResetIndexNeeded(idx, len) == idx >= len /\ len > 0

AddedAfterAlways(addedIPs, newIP, success) == Append(addedIPs, newIP)

\* lines 216-218
AddedAfter(addedIPs, newIP, success) ==
    IF success THEN Append(addedIPs, newIP) ELSE addedIPs

\* The rest of the record is history: poolAtStart is ipPool as the pass found
\* it, removeCalls and addCalls count its interface calls, succeeded lists
\* the addresses whose interface-add returned true, failed tells whether an
\* interface call of the pass returned false, and disturbed whether a
\* stopIPv6Pool emptied the pool under it.
IdlePass ==
    [pc |-> "idle", caller |-> 0, currentSize |-> 0, needToAdd |-> FALSE,
     batchTarget |-> 0, ipsToRemove |-> <<>>, k |-> 0, i |-> 0,
     addedIPs |-> <<>>, poolAtStart |-> <<>>, removeCalls |-> 0,
     addCalls |-> 0, succeeded |-> <<>>, failed |-> FALSE,
     disturbed |-> FALSE]

\* manageIPPool lines 180-200 and the choice of its first await, for caller c
\* (0 is the interval timer, p > 0 the p-th initIPv6Pool).
PassLocals(c) ==
    LET currentSize == Len(ipPool)
        needToAdd == NeedToAdd(currentSize)
        batchTarget == BatchTarget(currentSize)
        numToRemove == IF ShouldReplace(currentSize)
                       THEN NumToRemove(currentSize) ELSE 0
        ipsToRemove == SliceTo(ipPool, numToRemove)
    IN  [pc |-> IF Len(ipsToRemove) > 0 THEN "remove"
                ELSE IF needToAdd /\ batchTarget > 0 THEN "add"
                ELSE "idle",
         caller |-> c, currentSize |-> currentSize, needToAdd |-> needToAdd,
         batchTarget |-> batchTarget, ipsToRemove |-> ipsToRemove,
         k |-> 0, i |-> 0, addedIPs |-> <<>>, poolAtStart |-> ipPool,
         removeCalls |-> 0, addCalls |-> 0, succeeded |-> <<>>,
         failed |-> FALSE, disturbed |-> FALSE]

\* lines 190-195
PoolAfterEvict ==
    LET currentSize == Len(ipPool)
    IN  IF ShouldReplace(currentSize)
        THEN SliceFrom(ipPool, NumToRemove(currentSize))
        ELSE ipPool

\* lines 196-199
IndexAfterEvict ==
    IF ShouldReplace(Len(ipPool))
       /\ ResetIndexNeeded(currentIPIndex, Len(PoolAfterEvict))
    THEN 0 ELSE currentIPIndex

\* ------------------------------------------------------------- history
\* What a turn reports in `last`.  op names the operation that returned in
\* the turn: "pass" (manageIPPool ran to its end), "dropped" (manageIPPool
\* returned at line 175), "stop", "init", "next", or "none".
NoEvent ==
    [op |-> "none", caller |-> 0, startSize |-> 0, evicted |-> 0,
     removeCalls |-> 0, addCalls |-> 0, appended |-> 0, endSize |-> 0,
     disturbed |-> FALSE, ran |-> FALSE, covered |-> FALSE, failed |-> FALSE,
     passInFlight |-> FALSE, exact |-> FALSE, ret |-> <<>>, threw |-> FALSE]

\* pool is ipPool as the pass leaves it; exact tells whether that is ipPool
\* as the last turn of the pass found it, followed by the addresses whose
\* interface-add succeeded.
PassEvent(rec, pool) ==
    [NoEvent EXCEPT !.op = "pass", !.caller = rec.caller,
                    !.startSize = rec.currentSize,
                    !.evicted = Len(rec.ipsToRemove),
                    !.removeCalls = rec.removeCalls,
                    !.addCalls = rec.addCalls,
                    !.appended = Len(rec.addedIPs),
                    !.endSize = Len(pool),
                    !.failed = rec.failed,
                    !.exact = (pool = ipPool \o rec.succeeded),
                    !.disturbed = rec.disturbed]

DroppedEvent(c) == [NoEvent EXCEPT !.op = "dropped", !.caller = c]

StopEvent(rec) ==
    [NoEvent EXCEPT !.op = "stop", !.ran = rec.ran,
                    !.startSize = Len(rec.arr),
                    !.removeCalls = rec.k,
                    !.covered = Range(rec.arr) \subseteq rec.attempted,
                    !.failed = rec.failed,
                    !.passInFlight = rec.passInFlight]

InitEvent(p, ret) == [NoEvent EXCEPT !.op = "init", !.caller = p, !.ret = <<ret>>]

NextEvent(res) == [NoEvent EXCEPT !.op = "next", !.ret = res.ret, !.threw = res.threw]

\* ---------------------------------------------------------- initIPv6Pool
\* lines 257-260: the continuation after `await manageIPPool()`
CompleteInit(p) ==
    /\ init' = [init EXCEPT ![p] = "done"]
    /\ poolTimer' = p
    /\ timers' = timers \cup {p}
    /\ initialized' = TRUE

\* manageIPPool returning (the finally block), and its caller resuming
EndPass(rec, pool) ==
    /\ poolMutex' = FALSE
    /\ pass' = IdlePass
    /\ last' = PassEvent(rec, pool)
    /\ IF rec.caller > 0
       THEN CompleteInit(rec.caller)
       ELSE UNCHANGED <<init, poolTimer, timers, initialized>>

PassInFlightNever == FALSE

\* line 175: the guard of manageIPPool
PassInFlight == poolMutex

IsConfiguredAlways == TRUE

\* line 240: IPV6_PREFIX and IPV6_SUBNET are both set
IsConfigured == config.configured

\* lines 237-246, up to `await checkInterface()`
InitCall(p) ==
    /\ init[p] = "new"
    /\ \A q \in Starts : q < p => init[q] # "new"
    /\ IF initialized
       THEN init' = [init EXCEPT ![p] = "done"] /\ last' = InitEvent(p, TRUE)
       ELSE IF ~IsConfigured
       THEN init' = [init EXCEPT ![p] = "done"] /\ last' = InitEvent(p, FALSE)
       ELSE init' = [init EXCEPT ![p] = "check"] /\ last' = NoEvent
    /\ UNCHANGED <<config, ipPool, poolMutex, currentIPIndex, initialized,
                   poolTimer, timers, iface, pass, stop>>

\* lines 246-256: checkInterface has answered
InitChecked(p) ==
    /\ init[p] = "check"
    /\ \E interfaceOk \in BOOLEAN :
        IF ~interfaceOk
        THEN /\ init' = [init EXCEPT ![p] = "done"]
             /\ last' = InitEvent(p, FALSE)
             /\ UNCHANGED <<ipPool, poolMutex, currentIPIndex, initialized,
                            poolTimer, timers, pass>>
        ELSE IF PassInFlight
        THEN /\ CompleteInit(p)
             /\ last' = DroppedEvent(p)
             /\ UNCHANGED <<ipPool, poolMutex, currentIPIndex, pass>>
        ELSE /\ ipPool' = PoolAfterEvict
             /\ currentIPIndex' = IndexAfterEvict
             /\ IF PassLocals(p).pc = "idle"
                THEN EndPass(PassLocals(p), PoolAfterEvict)
                ELSE /\ poolMutex' = TRUE
                     /\ pass' = PassLocals(p)
                     /\ init' = [init EXCEPT ![p] = "manage"]
                     /\ last' = NoEvent
                     /\ UNCHANGED <<poolTimer, timers, initialized>>
    /\ UNCHANGED <<config, iface, stop>>

\* ------------------------------------------------------------ manageIPPool
\* A tick of an interval set at line 257: manageIPPool up to its first await.
Tick ==
    /\ timers # {}
    /\ IF PassInFlight
       THEN /\ last' = DroppedEvent(0)
            /\ UNCHANGED <<ipPool, currentIPIndex, poolMutex, pass>>
       ELSE /\ ipPool' = PoolAfterEvict
            /\ currentIPIndex' = IndexAfterEvict
            /\ IF PassLocals(0).pc = "idle"
               THEN /\ poolMutex' = FALSE
                    /\ pass' = IdlePass
                    /\ last' = PassEvent(PassLocals(0), PoolAfterEvict)
               ELSE /\ poolMutex' = TRUE
                    /\ pass' = PassLocals(0)
                    /\ last' = NoEvent
    /\ UNCHANGED <<config, initialized, poolTimer, timers, iface, init, stop>>

\* `await removeIPv6FromInterface(ip)` of line 205 resumes.
PassRemoved ==
    /\ pass.pc = "remove"
    /\ LET ip == pass.ipsToRemove[pass.k + 1]
       IN \E ok \in RemoveOutcomes(iface, ip) :
           LET rec == [pass EXCEPT !.k = @ + 1, !.removeCalls = @ + 1,
                                   !.failed = @ \/ ~ok]
           IN /\ iface' = IfaceAfterRemove(iface, ip, ok)
              /\ IF rec.k < Len(rec.ipsToRemove)
                 THEN /\ pass' = rec
                      /\ last' = NoEvent
                      /\ UNCHANGED <<poolMutex, init, poolTimer, timers,
                                     initialized>>
                 ELSE IF rec.needToAdd /\ rec.batchTarget > 0
                 THEN /\ pass' = [rec EXCEPT !.pc = "add"]
                      /\ last' = NoEvent
                      /\ UNCHANGED <<poolMutex, init, poolTimer, timers,
                                     initialized>>
                 ELSE EndPass(rec, ipPool)
    /\ UNCHANGED <<config, ipPool, currentIPIndex, stop>>

\* `await addIPv6ToInterface(newIP)` of line 215 resumes.
PassAdded ==
    /\ pass.pc = "add"
    /\ \E newIP \in RandomIPv6 : \E success \in AddOutcomes(newIP) :
        LET rec == [pass EXCEPT
                      !.i = @ + 1, !.addCalls = @ + 1,
                      !.addedIPs = AddedAfter(@, newIP, success),
                      !.succeeded = IF success THEN Append(@, newIP) ELSE @,
                      !.failed = @ \/ ~success]
            pool == IF Len(rec.addedIPs) > 0
                    THEN ipPool \o rec.addedIPs ELSE ipPool
        IN /\ iface' = IfaceAfterAdd(iface, newIP, success)
           /\ IF rec.i < rec.batchTarget
              THEN /\ pass' = rec
                   /\ last' = NoEvent
                   /\ UNCHANGED <<ipPool, poolMutex, init, poolTimer, timers,
                                  initialized>>
              ELSE /\ ipPool' = pool
                   /\ EndPass(rec, pool)
    /\ UNCHANGED <<config, currentIPIndex, stop>>

\* ----------------------------------------------------------- stopIPv6Pool
\* arr and k are the loop's array and position.  ran, attempted, failed and
\* passInFlight are history: the call got past line 267, the addresses it
\* called removeIPv6FromInterface for, whether one of those calls returned
\* false, and whether a manageIPPool was suspended when stop was called.
IdleStop ==
    [pc |-> "new", arr |-> <<>>, k |-> 0, ran |-> FALSE, attempted |-> {},
     failed |-> FALSE, passInFlight |-> FALSE]

StopReturn(rec) == [IdleStop EXCEPT !.pc = "done", !.ran = rec.ran]

StopNeverNoop == FALSE

StopIsNoopTimer == poolTimer = 0

\* line 267
StopIsNoop == ~initialized

\* the for-of loop of line 276 has visited every element of the array
StopLoopBreaks(arr, k, ok) == k >= Len(arr) \/ ~ok

StopLoopDone(arr, k, ok) == k >= Len(arr)

\* lines 281-283
StopClear ==
    /\ ipPool' = <<>>
    /\ currentIPIndex' = 0
    /\ initialized' = FALSE
    /\ pass' = IF pass.pc # "idle" THEN [pass EXCEPT !.disturbed = TRUE]
               ELSE pass

StopCall(s) ==
    /\ stop[s].pc = "new"
    /\ \A q \in Stops : q < s => stop[q].pc # "new"
    /\ IF StopIsNoop
       THEN /\ stop' = [stop EXCEPT ![s] = StopReturn(stop[s])]
            /\ last' = StopEvent(stop[s])
            /\ UNCHANGED <<ipPool, currentIPIndex, initialized, poolTimer,
                           timers, pass>>
       ELSE /\ poolTimer' = 0
            /\ timers' = timers \ {poolTimer}
            /\ LET rec == [stop[s] EXCEPT !.arr = ipPool, !.ran = TRUE,
                                          !.passInFlight = pass.pc # "idle"]
               IN IF StopLoopDone(rec.arr, 0, TRUE)
                  THEN /\ stop' = [stop EXCEPT ![s] = StopReturn(rec)]
                       /\ last' = StopEvent(rec)
                       /\ StopClear
                  ELSE /\ stop' = [stop EXCEPT ![s] = [rec EXCEPT !.pc = "remove"]]
                       /\ last' = NoEvent
                       /\ UNCHANGED <<ipPool, currentIPIndex, initialized,
                                      pass>>
    /\ UNCHANGED <<config, poolMutex, iface, init>>

\* `await removeIPv6FromInterface(ip)` of line 277 resumes.
StopRemoved(s) ==
    /\ stop[s].pc = "remove"
    /\ LET ip == stop[s].arr[stop[s].k + 1]
       IN \E ok \in RemoveOutcomes(iface, ip) :
           LET rec == [stop[s] EXCEPT !.k = @ + 1,
                                      !.attempted = @ \cup {ip},
                                      !.failed = @ \/ ~ok]
           IN /\ iface' = IfaceAfterRemove(iface, ip, ok)
              /\ IF StopLoopDone(rec.arr, rec.k, ok)
                 THEN /\ stop' = [stop EXCEPT ![s] = StopReturn(rec)]
                      /\ last' = StopEvent(rec)
                      /\ StopClear
                 ELSE /\ stop' = [stop EXCEPT ![s] = rec]
                      /\ last' = NoEvent
                      /\ UNCHANGED <<ipPool, currentIPIndex, initialized,
                                     pass>>
    /\ UNCHANGED <<config, poolMutex, poolTimer, timers, init>>

\* ------------------------------------------------------ getNextIPFromPool
NextIndexStay(idx, len) == idx % len

\* line 160
NextIndex(idx, len) == (idx + 1) % len

NextIsNoopEmptyOnly(inited, pool) == Len(pool) = 0

\* line 154
NextIsNoop(inited, pool) == ~inited \/ Len(pool) = 0

\* The call's result: ret is <<>> for null and <<ip>> for an address, idx the
\* value left in currentIPIndex, threw whether the recursion of line 168
\* overflowed the call stack.  An index past the end reads undefined, which
\* net.isIPv6 rejects.
RECURSIVE GetNextIPFromPool(_, _, _, _)
GetNextIPFromPool(inited, pool, idx, depth) ==
    IF NextIsNoop(inited, pool)
    THEN [ret |-> <<>>, idx |-> idx, threw |-> FALSE]
    ELSE IF depth = 0
    THEN [ret |-> <<>>, idx |-> idx, threw |-> TRUE]
    ELSE IF idx < Len(pool) /\ IsIPv6(pool[idx + 1])
    THEN [ret |-> <<pool[idx + 1]>>, idx |-> NextIndex(idx, Len(pool)),
          threw |-> FALSE]
    ELSE GetNextIPFromPool(inited, pool, NextIndex(idx, Len(pool)), depth - 1)

NextResult == GetNextIPFromPool(initialized, ipPool, currentIPIndex, MaxCallStack)

NextCall ==
    /\ currentIPIndex' = NextResult.idx
    /\ last' = NextEvent(NextResult)
    /\ UNCHANGED <<config, ipPool, poolMutex, initialized, poolTimer, timers,
                   iface, pass, init, stop>>

\* Consecutive getNextIPFromPool calls: rr.log holds the results of the calls
\* made since ipPool, currentIPIndex or initialized was last changed by
\* anything else; it starts afresh after two rounds of the pool.
IdleRR == [log |-> <<>>]

RRLogged(res) == [ret |-> res.ret, threw |-> res.threw]

NextCallLogged ==
    /\ NextCall
    /\ rr' = [log |-> IF Len(rr.log) >= 2 * Len(ipPool)
                      THEN <<RRLogged(NextResult)>>
                      ELSE Append(rr.log, RRLogged(NextResult))]
    /\ UNCHANGED <<req, hostAddsOk>>

RRKeep ==
    /\ rr' = IF /\ ipPool' = ipPool
                /\ currentIPIndex' = currentIPIndex
                /\ initialized' = initialized
             THEN rr ELSE IdleRR
    /\ UNCHANGED <<req, hostAddsOk>>

\* ------------------------------------------------------- requestWithIPv6
\* What one attempt of the request can end in: a response, or an error code.
Outcomes == {"OK", "EADDRNOTAVAIL", "ENETUNREACH", "ETIMEDOUT"}

\* What the unbound default path yields for a request: axios fails on a URL
\* that does not parse.
DefaultOutcomes(urlOk) == IF urlOk THEN Outcomes ELSE {"ERR_INVALID_URL"}

\* The explicit source addresses tried as the ipv6 argument; <<>> is none.
ExplicitChoices == {<<>>, <<1>>}

IsAddressFailureOnlyAddr(code) == code = "EADDRNOTAVAIL"

IsAddressFailureNever(code) == FALSE

\* ipv6proxy.ts line 67
IsAddressFailure(code) == code \in {"EADDRNOTAVAIL", "ENETUNREACH"}

IsIPv6RotationEnabledAlways == TRUE

\* ipv6pool.ts lines 289-291
IsIPv6RotationEnabled == initialized /\ Len(ipPool) > 0

\* ipv6 and urlOk are the call's arguments, sourceIp its local; world is what
\* the default path yields for this request, attempts the requests issued
\* (path and outcome), result what the caller receives, and running the
\* value `initialized` had when the call was made.
IdleReq ==
    [pc |-> "new", ipv6 |-> <<>>, urlOk |-> TRUE, world |-> "OK",
     sourceIp |-> <<>>, attempts |-> <<>>, result |-> "none",
     running |-> FALSE]

\* lines 37-63: up to the first awaited request
DispatchCall ==
    /\ req.pc = "new"
    /\ \E ipv6 \in ExplicitChoices : \E urlOk \in BOOLEAN :
       \E world \in DefaultOutcomes(urlOk) :
        LET rec == [req EXCEPT !.ipv6 = ipv6, !.urlOk = urlOk, !.world = world,
                               !.running = initialized]
        IN IF ~IsIPv6RotationEnabled /\ ipv6 = <<>>
           THEN /\ req' = [rec EXCEPT !.pc = "default"]
                /\ last' = NoEvent
                /\ UNCHANGED currentIPIndex
           ELSE IF ipv6 # <<>>
           THEN /\ req' = IF urlOk
                          THEN [rec EXCEPT !.pc = "bound", !.sourceIp = ipv6]
                          ELSE [rec EXCEPT !.pc = "done", !.sourceIp = ipv6,
                                           !.result = "TypeError"]
                /\ last' = NoEvent
                /\ UNCHANGED currentIPIndex
           ELSE /\ currentIPIndex' = NextResult.idx
                /\ last' = NextEvent(NextResult)
                /\ req' = IF NextResult.threw
                          THEN [rec EXCEPT !.pc = "done", !.result = "RangeError"]
                          ELSE IF NextResult.ret = <<>>
                          THEN [rec EXCEPT !.pc = "default"]
                          ELSE IF urlOk
                          THEN [rec EXCEPT !.pc = "bound",
                                           !.sourceIp = NextResult.ret]
                          ELSE [rec EXCEPT !.pc = "done",
                                           !.sourceIp = NextResult.ret,
                                           !.result = "TypeError"]
    /\ UNCHANGED <<config, ipPool, poolMutex, initialized, poolTimer, timers,
                   iface, pass, init, stop, rr, hostAddsOk>>

\* lines 57-73: the request bound to sourceIp has ended
DispatchBoundDone ==
    /\ req.pc = "bound"
    /\ \E out \in Outcomes :
        LET rec == [req EXCEPT !.attempts = Append(@, [path |-> "bound", out |-> out])]
        IN req' = IF out = "OK"
                  THEN [rec EXCEPT !.pc = "done", !.result = out]
                  ELSE IF IsAddressFailure(out)
                  THEN [rec EXCEPT !.pc = "fallback"]
                  ELSE [rec EXCEPT !.pc = "done", !.result = out]
    /\ last' = NoEvent
    /\ UNCHANGED <<config, ipPool, poolMutex, currentIPIndex, initialized,
                   poolTimer, timers, iface, pass, init, stop, rr, hostAddsOk>>

\* lines 39, 46 and 70: the request on the default path has ended
DispatchDefaultDone ==
    /\ req.pc \in {"default", "fallback"}
    /\ req' = [req EXCEPT !.pc = "done",
                          !.attempts = Append(@, [path |-> "default",
                                                  out |-> req.world]),
                          !.result = req.world]
    /\ last' = NoEvent
    /\ UNCHANGED <<config, ipPool, poolMutex, currentIPIndex, initialized,
                   poolTimer, timers, iface, pass, init, stop, rr, hostAddsOk>>

\* ------------------------------------------------------------------ system
\* The configurations tried: rotation not configured; a prefix and subnet
\* that make malformed addresses; and well-formed ones with every batch size
\* up to MaxBatch, which covers a batch smaller than the pool and a batch
\* that takes the whole pool.
Configs ==
    {[configured |-> FALSE, wellFormed |-> FALSE,
      desiredPoolSize |-> MaxDesired, poolAddBatchSize |-> MaxBatch],
     [configured |-> TRUE, wellFormed |-> FALSE,
      desiredPoolSize |-> MaxDesired, poolAddBatchSize |-> MaxBatch]}
    \cup [configured : {TRUE}, wellFormed : {TRUE},
          desiredPoolSize : {MaxDesired},
          poolAddBatchSize : 1..MaxBatch]

Init ==
    /\ config \in Configs
    /\ ipPool = <<>>
    /\ poolMutex = FALSE
    /\ currentIPIndex = 0
    /\ initialized = FALSE
    /\ poolTimer = 0
    /\ timers = {}
    /\ iface = {}
    /\ pass = IdlePass
    /\ init = [p \in Starts |-> "new"]
    /\ stop = [s \in Stops |-> IdleStop]
    /\ last = NoEvent
    /\ rr = IdleRR
    /\ req = IdleReq
    /\ hostAddsOk = FALSE

Next ==
    \/ \E p \in Starts : InitCall(p) /\ UNCHANGED aux
    \/ \E p \in Starts : InitChecked(p) /\ UNCHANGED aux
    \/ Tick /\ UNCHANGED aux
    \/ PassRemoved /\ UNCHANGED aux
    \/ PassAdded /\ UNCHANGED aux
    \/ \E s \in Stops : StopCall(s) /\ UNCHANGED aux
    \/ \E s \in Stops : StopRemoved(s) /\ UNCHANGED aux
    \/ NextCall /\ UNCHANGED aux

Spec == Init /\ [][Next]_vars

\* One initIPv6Pool, one stopIPv6Pool, the timer, and getNextIPFromPool calls
\* with their results logged.
NextRR ==
    \/ InitCall(1) /\ RRKeep
    \/ InitChecked(1) /\ RRKeep
    \/ Tick /\ RRKeep
    \/ PassRemoved /\ RRKeep
    \/ PassAdded /\ RRKeep
    \/ StopCall(1) /\ RRKeep
    \/ StopRemoved(1) /\ RRKeep
    \/ NextCallLogged

SpecRR == Init /\ [][NextRR]_vars

\* One initIPv6Pool, the timer, and one requestWithIPv6.
NextDispatch ==
    \/ InitCall(1) /\ UNCHANGED aux
    \/ InitChecked(1) /\ UNCHANGED aux
    \/ Tick /\ UNCHANGED aux
    \/ PassRemoved /\ UNCHANGED aux
    \/ PassAdded /\ UNCHANGED aux
    \/ DispatchCall
    \/ DispatchBoundDone
    \/ DispatchDefaultDone

SpecDispatch == Init /\ [][NextDispatch]_vars

\* getNextIPFromPool as a function of the module state it reads.  ipPool is
\* drawn from every sequence of well-formed and malformed entries short
\* enough for a full round to fit the call stack, and currentIPIndex from
\* every index up to the length: the corrupted pool that the isIPv6 test of
\* line 163 is there for.  The manager itself never stores a malformed entry
\* (AddOutcomes), so these pools are not reached under Spec.
AnyPool == UNION {[1..n -> Addr \cup {Bad}] : n \in 0..(MaxCallStack - 1)}

InitAnyPool ==
    /\ config \in Configs
    /\ ipPool \in AnyPool
    /\ currentIPIndex \in 0..Len(ipPool)
    /\ initialized \in BOOLEAN
    /\ poolMutex = FALSE
    /\ poolTimer = 0
    /\ timers = {}
    /\ iface = {}
    /\ pass = IdlePass
    /\ init = [p \in Starts |-> "new"]
    /\ stop = [s \in Stops |-> IdleStop]
    /\ last = NoEvent
    /\ rr = IdleRR
    /\ req = IdleReq
    /\ hostAddsOk = FALSE

NextAnyPool == NextCall /\ UNCHANGED aux

SpecAnyPool == InitAnyPool /\ [][NextAnyPool]_vars

\* The host stops failing interface-adds, for good.
HostHeals ==
    /\ ~hostAddsOk
    /\ hostAddsOk' = TRUE
    /\ UNCHANGED <<config, ipPool, poolMutex, currentIPIndex, initialized,
                   poolTimer, timers, iface, pass, init, stop, last, rr, req>>

\* One initIPv6Pool and the timer, with no stopIPv6Pool, on a host whose
\* interface-adds may stop failing.  The interval set at line 257 fires
\* again and again, and every interface command returns (execAsync settles
\* when the command exits).
NextLive ==
    \/ InitCall(1) /\ UNCHANGED aux
    \/ InitChecked(1) /\ UNCHANGED aux
    \/ Tick /\ UNCHANGED aux
    \/ PassRemoved /\ UNCHANGED aux
    \/ PassAdded /\ UNCHANGED aux
    \/ NextCall /\ UNCHANGED aux
    \/ HostHeals

SpecLive ==
    /\ Init
    /\ [][NextLive]_vars
    /\ WF_vars(Tick /\ UNCHANGED aux)
    /\ WF_vars(PassRemoved /\ UNCHANGED aux)
    /\ WF_vars(PassAdded /\ UNCHANGED aux)

\* ------------------------------------------------------------------ claims
PassEnded == last.op = "pass"

StopEnded == last.op = "stop"

\* C1: when a stopIPv6Pool that got past its guard returns, ipPool is empty
\* and removeIPv6FromInterface has been called for every address that was in
\* ipPool when stop was called, one call per element, whether or not those
\* calls succeeded and whether or not a pass was suspended meanwhile.
C1_StopDrainsPool ==
    (StopEnded /\ last.ran) =>
        /\ ipPool = <<>>
        /\ last.covered
        /\ last.removeCalls = last.startSize

C1_Witness ==
    /\ StopEnded /\ last.ran
    /\ last.startSize >= 1
    /\ last.failed
    /\ last.passInFlight

\* C3: at the end of every pass the pool holds at most desiredPoolSize
\* addresses.
C3_SizeAtMostDesired ==
    PassEnded => /\ Len(ipPool) <= config.desiredPoolSize
                 /\ last.endSize = Len(ipPool)

C3_Witness ==
    /\ PassEnded /\ last.caller = 0 /\ initialized
    /\ last.startSize > 0
    /\ last.appended > 0
    /\ Len(ipPool) = config.desiredPoolSize

\* C6: no pass both removes and adds.  A pass that evicts or calls
\* interface-remove started at or above desiredPoolSize and makes no
\* interface-add and no append; a pass that calls interface-add or appends
\* started below desiredPoolSize and evicts nothing.
C6_GrowthXorReplacement ==
    /\ pass.pc # "idle" =>
          /\ ~(Len(pass.ipsToRemove) > 0 /\ (pass.pc = "add" \/ pass.addCalls > 0))
          /\ Len(pass.ipsToRemove) > 0 => pass.currentSize >= config.desiredPoolSize
          /\ pass.pc = "add" => pass.currentSize < config.desiredPoolSize
    /\ PassEnded =>
          /\ ~(last.evicted + last.removeCalls > 0 /\ last.addCalls + last.appended > 0)
          /\ last.evicted + last.removeCalls > 0 => last.startSize >= config.desiredPoolSize
          /\ last.addCalls + last.appended > 0 => last.startSize < config.desiredPoolSize

C6_Witness ==
    /\ PassEnded
    /\ last.evicted > 0 /\ last.removeCalls = last.evicted
    /\ last.addCalls = 0
    /\ \E s \in Stops : stop[s].pc = "new"

\* C7 as stated: a pass that starts with size = desiredPoolSize and whose
\* interface calls all succeed re-adds what it removed, so the pool is back
\* at desiredPoolSize when the pass ends.
C7_Original ==
    (PassEnded /\ last.startSize = config.desiredPoolSize
       /\ ~last.failed /\ ~last.disturbed) =>
        /\ last.evicted = Min(config.poolAddBatchSize, last.startSize)
        /\ last.appended = last.evicted
        /\ last.endSize = config.desiredPoolSize

\* C7 amended: a pass that starts with size >= desiredPoolSize evicts the
\* min(batchSize, size) oldest addresses, calls interface-remove once for
\* each and adds nothing, so unless a stop empties the pool meanwhile the
\* size at its end is size - min(batchSize, size).
C7_ReplacementOnlyRemoves ==
    /\ (pass.pc = "remove") =>
          LET n == Min(config.poolAddBatchSize, pass.currentSize)
          IN /\ pass.currentSize >= config.desiredPoolSize
             /\ pass.ipsToRemove = SubSeq(pass.poolAtStart, 1, n)
             /\ ~pass.disturbed =>
                   ipPool = SubSeq(pass.poolAtStart, n + 1, Len(pass.poolAtStart))
    /\ (PassEnded /\ last.startSize >= config.desiredPoolSize) =>
          /\ last.evicted = Min(config.poolAddBatchSize, last.startSize)
          /\ last.removeCalls = last.evicted
          /\ last.addCalls = 0
          /\ last.appended = 0
          /\ ~last.disturbed => last.endSize = last.startSize - last.evicted

C7_Witness ==
    /\ PassEnded /\ last.startSize = config.desiredPoolSize
    /\ config.poolAddBatchSize < config.desiredPoolSize
    /\ ~last.failed /\ ~last.disturbed
    /\ last.endSize = config.desiredPoolSize - config.poolAddBatchSize

\* C8: a pass that starts with size s < desiredPoolSize calls interface-add
\* exactly min(batchSize, desiredPoolSize - s) times, evicts nothing, and
\* leaves ipPool as it was followed by exactly the addresses whose add
\* succeeded; if all adds succeed and no stop empties the pool meanwhile,
\* the size at its end is s + min(batchSize, desiredPoolSize - s).
C8_GrowthAddsBatch ==
    (PassEnded /\ last.startSize < config.desiredPoolSize) =>
        LET toAdd == Min(config.poolAddBatchSize,
                         config.desiredPoolSize - last.startSize)
        IN /\ last.addCalls = toAdd
           /\ last.evicted = 0 /\ last.removeCalls = 0
           /\ last.exact
           /\ last.appended <= toAdd
           /\ ~last.failed => last.appended = toAdd
           /\ ~last.disturbed => last.endSize = last.startSize + last.appended

C8_Witness ==
    /\ PassEnded /\ last.caller = 0
    /\ last.startSize > 0 /\ last.startSize < config.desiredPoolSize
    /\ ~last.failed /\ ~last.disturbed
    /\ last.endSize = config.desiredPoolSize
    /\ \E s \in Stops : stop[s].pc = "new"

\* The manager's lifecycle state, read off the program's state: Running
\* while `initialized` is set; else Initializing while an initIPv6Pool is
\* between its configuration check and its return; else Stopped once a
\* stopIPv6Pool has run to its end; else Uninitialized.
EverStopped == \E s \in Stops : stop[s].pc = "done" /\ stop[s].ran

Lifecycle ==
    IF initialized THEN "Running"
    ELSE IF \E p \in Starts : init[p] \in {"check", "manage"} THEN "Initializing"
    ELSE IF EverStopped THEN "Stopped"
    ELSE "Uninitialized"

\* C9 as stated: Stopped is terminal.
C9_Original == [][Lifecycle = "Stopped" => Lifecycle' = "Stopped"]_vars

\* C9 amended: the lifecycle moves Uninitialized -> Initializing -> Running
\* -> Stopped and Stopped is not terminal: initIPv6Pool takes a stopped
\* manager to Initializing again and from there to Running.  Running is
\* entered only from Initializing; Uninitialized and Stopped are left only
\* for Initializing; a failed interface check takes Initializing back to
\* Uninitialized or Stopped; and a stop that ends while another
\* initIPv6Pool call is still under way leaves the manager Initializing.
C9_LifecycleEdges ==
    [][/\ Lifecycle = "Uninitialized" =>
            Lifecycle' \in {"Uninitialized", "Initializing"}
       /\ Lifecycle = "Initializing" =>
            Lifecycle' \in {"Initializing", "Running", "Uninitialized", "Stopped"}
       /\ Lifecycle = "Running" =>
            Lifecycle' \in {"Running", "Stopped", "Initializing"}
       /\ Lifecycle = "Stopped" =>
            Lifecycle' \in {"Stopped", "Initializing"}]_vars

C9_Witness ==
    /\ EverStopped
    /\ PassEnded /\ last.caller = 2 /\ last.appended > 0
    /\ init = [p \in Starts |-> IF p <= 2 THEN "done" ELSE "new"]
    /\ Lifecycle = "Running"
    /\ poolTimer = 2 /\ timers = {2}
    /\ Len(ipPool) > 0

\* C10: a stopIPv6Pool called while `initialized` is false (never started,
\* or already stopped) returns in the same turn, calls no interface-remove
\* and changes nothing of the pool, the cursor, the running flag, the timer,
\* the interface or a pass under way.
C10_StopNoopWhenNotRunning ==
    [][\A s \in Stops :
         (stop[s].pc = "new" /\ stop'[s].pc # "new" /\ ~initialized) =>
            /\ stop'[s].pc = "done" /\ ~stop'[s].ran
            /\ last'.op = "stop" /\ last'.removeCalls = 0
            /\ UNCHANGED <<ipPool, currentIPIndex, initialized, poolTimer,
                           timers, iface, poolMutex, pass, init>>]_vars

C10_Witness ==
    /\ StopEnded /\ ~last.ran
    /\ EverStopped
    /\ stop[1].pc = "done" /\ stop[1].ran
    /\ stop[2].pc = "done" /\ ~stop[2].ran

\* C2: on a running pool with n > 0 addresses, the calls made with nothing
\* else touching the pool return the pool's entries in insertion order,
\* cyclically from the cursor: call j returns the entry j places after the
\* one the first call returned, so n consecutive calls return every entry
\* once and the next n calls repeat them.
C2_RoundRobin ==
    LET n == Len(ipPool)
        m == Len(rr.log)
    IN (initialized /\ n > 0 /\ m > 0) =>
        \A j \in 1..m :
            /\ ~rr.log[j].threw
            /\ rr.log[j].ret =
                 <<ipPool[((currentIPIndex + 2 * n - m + j - 1) % n) + 1]>>

C2_Witness ==
    /\ initialized
    /\ Len(ipPool) >= 2
    /\ ipPool[1] # ipPool[2]
    /\ Len(rr.log) = 2 * Len(ipPool)
    /\ rr.log[1].ret = <<ipPool[2]>>

BoundAttempted == Len(req.attempts) >= 1 /\ req.attempts[1].path = "bound"

\* C4: once a request bound to a source address has been sent, if it fails
\* with EADDRNOTAVAIL or ENETUNREACH exactly one more request is made, on
\* the default path, and its outcome is what the caller receives; if it
\* ends any other way no further request is made and its outcome is what
\* the caller receives.
C4_FallbackOnce ==
    (req.pc = "done" /\ BoundAttempted) =>
        IF req.attempts[1].out \in {"EADDRNOTAVAIL", "ENETUNREACH"}
        THEN /\ Len(req.attempts) = 2
             /\ req.attempts[2].path = "default"
             /\ req.result = req.attempts[2].out
        ELSE /\ Len(req.attempts) = 1
             /\ req.result = req.attempts[1].out

C4_Witness ==
    /\ req.pc = "done" /\ BoundAttempted
    /\ req.ipv6 = <<>>
    /\ req.attempts[1].out = "ENETUNREACH"
    /\ Len(req.attempts) = 2
    /\ req.result = "ETIMEDOUT"

\* C5 as stated: a request that used a bound source address ends for the
\* caller in a response or in the error the default path yields for it.
C5_Original ==
    (req.pc = "done" /\ BoundAttempted) =>
        (req.result = "OK" \/ req.result = req.world)

\* C5 amended: a request that used a bound source address ends for the
\* caller in a response, in what the default path yields for it, or in the
\* bound attempt's own error when that error is neither EADDRNOTAVAIL nor
\* ENETUNREACH; after one of those two the caller always receives what the
\* default path yields.
C5_FallbackOnlyForAddressErrors ==
    (req.pc = "done" /\ BoundAttempted) =>
        /\ \/ req.result = "OK"
           \/ req.result = req.world
           \/ /\ req.result = req.attempts[1].out
              /\ req.result \notin {"EADDRNOTAVAIL", "ENETUNREACH"}
        /\ req.attempts[1].out \in {"EADDRNOTAVAIL", "ENETUNREACH"} =>
              req.result = req.world

C5_Witness ==
    /\ req.pc = "done" /\ BoundAttempted
    /\ req.ipv6 = <<>>
    /\ req.attempts[1].out = "ETIMEDOUT"
    /\ req.world = "OK"
    /\ req.result = "ETIMEDOUT"

\* C11: a getNextIPFromPool called while `initialized` is false (never
\* started, an initIPv6Pool still under way, or stopped) or while ipPool is
\* empty returns null, does not throw, and leaves currentIPIndex, ipPool and
\* everything else of the manager as they were.
C11_NextNoopWhenNotRunning ==
    [][(last'.op = "next" /\ (~initialized \/ Len(ipPool) = 0)) =>
          /\ last'.ret = <<>>
          /\ ~last'.threw
          /\ UNCHANGED <<ipPool, currentIPIndex, initialized, poolMutex,
                         poolTimer, timers, iface, pass, init, stop>>]_vars

C11_Witness ==
    /\ last.op = "next" /\ last.ret = <<>>
    /\ ~initialized
    /\ Len(ipPool) > 0
    /\ EverStopped
    /\ \E p \in Starts : init[p] = "manage"

\* C12: an initIPv6Pool called with prefix or subnet unset returns false in
\* the same turn, and one whose checkInterface answers false returns false
\* in the turn of that answer; the returning turn leaves `initialized`, the
\* pool, the cursor, the timer, the interface and any pass as they were.
\* With prefix or subnet unset the manager never runs at all: no pass, no
\* timer, no address on the interface or in the pool.
C12_FailedStartChangesNothing ==
    [][/\ \A p \in Starts :
            /\ (init[p] = "new" /\ init'[p] # "new" /\ ~config.configured) =>
                  /\ init'[p] = "done"
                  /\ last' = InitEvent(p, FALSE)
            /\ (init[p] # "done" /\ last' = InitEvent(p, FALSE)) =>
                  /\ init'[p] = "done"
                  /\ UNCHANGED <<ipPool, currentIPIndex, initialized,
                                 poolMutex, poolTimer, timers, iface, pass>>
       /\ ~config.configured =>
            /\ ~initialized' /\ ipPool' = <<>> /\ iface' = {}
            /\ timers' = {} /\ poolTimer' = 0
            /\ pass' = IdlePass /\ ~poolMutex']_vars

C12_Witness ==
    /\ last = InitEvent(2, FALSE)
    /\ config.configured
    /\ init[1] = "manage" /\ init[2] = "done"
    /\ pass.pc = "add" /\ pass.addCalls > 0
    /\ ~initialized

\* C13: a requestWithIPv6 called while `initialized` is false and without
\* an ipv6 argument does not call getNextIPFromPool and leaves
\* currentIPIndex alone, issues exactly one request, on the default path,
\* and hands its caller that request's outcome, response or error.
C13_DefaultPathWhenNotRunning ==
    [][/\ (req.pc = "new" /\ req'.pc # "new" /\ ~initialized
             /\ req'.ipv6 = <<>>) =>
            /\ req'.pc = "default"
            /\ req'.attempts = <<>>
            /\ last'.op # "next"
            /\ UNCHANGED <<currentIPIndex, ipPool>>
       /\ (req.pc # "done" /\ req'.pc = "done" /\ ~req'.running
             /\ req'.ipv6 = <<>>) =>
            /\ req.pc = "default"
            /\ req'.attempts = <<[path |-> "default", out |-> req.world]>>
            /\ req'.result = req.world
            /\ UNCHANGED <<currentIPIndex, ipPool>>]_vars

C13_Witness ==
    /\ req.pc = "done"
    /\ ~req.running /\ req.ipv6 = <<>>
    /\ req.result = "ENETUNREACH"
    /\ Len(req.attempts) = 1
    /\ initialized /\ Len(ipPool) > 0

\* C14 as stated: whenever ipPool is not empty, 0 <= currentIPIndex <
\* ipPool.length.
C14_CursorInRange ==
    Len(ipPool) > 0 => (0 <= currentIPIndex /\ currentIPIndex < Len(ipPool))

\* C15 as stated: every address in ipPool is assigned on the interface.
\* The interface changes only by the manager's own commands.
C15_PoolOnInterface == \A j \in 1..Len(ipPool) : ipPool[j] \in iface

\* How many times address a occurs in sequence s.
Count(s, a) == Cardinality({j \in 1..Len(s) : s[j] = a})

\* The addresses for which removeIPv6FromInterface has returned, before or
\* in this turn, in the invocation whose turn this is: a stopIPv6Pool that
\* ends its loop in this turn, or the manageIPPool that holds poolMutex.
RemoveAttempted ==
    UNION {Range(stop[s].arr) : s \in {t \in Stops : stop[t].pc = "remove"
                                                      /\ stop'[t].pc = "done"}}
    \cup Range(SubSeq(pass.ipsToRemove, 1, pass.k))

\* C16 as stated: in every turn, an address that ipPool gains was appended
\* by a pass after addIPv6ToInterface returned true for it, and an address
\* that ipPool loses had removeIPv6FromInterface called for it before, by
\* the pass or the stopIPv6Pool that drops it.
C16_OrderPoolInterface ==
    [][\A a \in Addr \cup {Bad} :
         /\ Count(ipPool', a) > Count(ipPool, a) =>
               /\ pass.pc = "add" /\ last'.op = "pass" /\ last'.exact
         /\ Count(ipPool', a) < Count(ipPool, a) => a \in RemoveAttempted]_vars

\* A manageIPPool gets past its guard in this turn and suspends at an
\* interface call.
PassBegins ==
    /\ pass'.pc # "idle" /\ pass'.k = 0 /\ pass'.i = 0
    /\ [pass' EXCEPT !.disturbed = FALSE] # [pass EXCEPT !.disturbed = FALSE]

\* C17: a manageIPPool gets past its guard only while no other is
\* suspended; poolMutex is set exactly while one is suspended and is
\* cleared in the turn it ends; a manageIPPool called by the timer or by
\* initIPv6Pool while poolMutex is set returns in the same turn leaving the
\* pool, the cursor, the interface and the suspended pass as they were, and
\* is not run later: the initIPv6Pool that called it completes at once, and
\* a pass under way for an initIPv6Pool is the one that call is awaiting.
C17_OnePassAtATime ==
    [][/\ poolMutex' <=> pass'.pc # "idle"
       /\ PassBegins => (~poolMutex /\ pass.pc = "idle" /\ poolMutex')
       /\ (poolMutex /\ ~poolMutex') => (last'.op = "pass" /\ pass' = IdlePass)
       /\ last'.op = "pass" => ~poolMutex'
       /\ last'.op = "dropped" =>
             /\ poolMutex /\ poolMutex'
             /\ UNCHANGED <<ipPool, currentIPIndex, iface, pass>>
             /\ last'.caller > 0 => init'[last'.caller] = "done"
       /\ pass'.caller > 0 => init'[pass'.caller] = "manage"]_vars

C17_Witness ==
    /\ last = DroppedEvent(2)
    /\ poolMutex
    /\ pass.pc = "add" /\ pass.addCalls > 0 /\ pass.caller = 1
    /\ init[1] = "manage" /\ init[2] = "done"

\* C18 as stated, for the states in which no later initIPv6Pool has made the
\* manager run again: once a stopIPv6Pool that got past its guard has
\* returned, ipPool is empty.
C18_QuiescentAfterStop == (EverStopped /\ ~initialized) => ipPool = <<>>

\* C19: with the manager running and never stopped, the timer firing and
\* every interface command returning, once the host no longer fails an
\* interface-add (and the configured prefix and subnet make well-formed
\* addresses) ipPool eventually holds desiredPoolSize addresses.
C19_PoolEventuallyFull ==
    (initialized /\ hostAddsOk /\ config.wellFormed)
        ~> (Len(ipPool) = config.desiredPoolSize)

C19_Witness ==
    /\ PassEnded /\ last.caller = 0
    /\ hostAddsOk
    /\ config.poolAddBatchSize = config.desiredPoolSize
    /\ last.startSize > 0 /\ last.startSize < config.desiredPoolSize
    /\ last.endSize = config.desiredPoolSize

====
